---- MODULE Spec2Model ----
(***************************************************************************)
(* Carbon-Vault data pipeline: DataNormalizer (normalize, clean,           *)
(* deduplicate), DataStorage (save to JSON / CSV / SQLite with backups,    *)
(* load_json, load_sqlite) and the DataPipeline.run driver that chains     *)
(* them.                                                                   *)
(*                                                                         *)
(* Numbers.  A raw numeric value is an integer count of thousandths        *)
(* (100.456 is 100456).  A canonical co2_tons value is a float already     *)
(* rounded to DEFAULT_DECIMAL_PLACES = 2 places and is an integer count of *)
(* hundredths (100.46 is 10046).  Python's round() is round-half-to-even   *)
(* on the exact value of the double; the raw inputs drawn below contain no *)
(* decimal tie that a double cannot hold exactly.                          *)
(***************************************************************************)
EXTENDS Integers, Sequences, FiniteSets, TLC

(***************************************************************************)
(* Bounds of the model                                                     *)
(***************************************************************************)
MaxLen == 3            \* longest raw batch built from CoreRecords
MaxStoreSaves == 2     \* calls of save in the storage specification
MaxStoreLen == 2       \* longest batch handed to save in the storage specification
MaxFaultSaves == 2     \* calls of save in the specification with failing steps
MaxLoadSaves == 2      \* calls of save in the specification with reads
MaxPruneSaves == 6     \* calls of save in the specification of the pruning

(***************************************************************************)
(* config.py                                                               *)
(***************************************************************************)
DEFAULT_DECIMAL_PLACES == 2
\* 0.01 tons, in hundredths
MIN_CO2_TONS == 1
\* variant: the upper bound taken in thousandths
MaxCo2TonsThousandths == 1000000 * 1000

\* 1000000 tons, in hundredths
MAX_CO2_TONS == 1000000 * 100
REQUIRED_FIELDS == <<"project_id", "co2_tons", "timestamp">>
ENABLE_BACKUP == TRUE
MAX_BACKUPS == 10

(***************************************************************************)
(* Python values held by a raw record: a number, a string, a dict or None. *)
(* n is the number in thousandths; s is the string, or the name of a dict. *)
(***************************************************************************)
Num(x) == [t |-> "num", n |-> x, s |-> ""]
Str(x) == [t |-> "str", n |-> 0, s |-> x]
Map(x) == [t |-> "map", n |-> 0, s |-> x]
Dt(x) == [t |-> "dt", n |-> 0, s |-> x]
None == [t |-> "none", n |-> 0, s |-> ""]

Merge(f, g) ==
    [x \in (DOMAIN f) \cup (DOMAIN g) |-> IF x \in DOMAIN f THEN f[x] ELSE g[x]]

EmptyRaw == [x \in {} |-> None]
Fld(name, v) == [x \in {name} |-> v]

(***************************************************************************)
(* Characters of the CO2 field names, for the substring tests of           *)
(* _extract_co2_tons ("kg" in field.lower(), "g" in field.lower()).        *)
(***************************************************************************)
FieldChars ==
    [co2_tons |-> <<"c", "o", "2", "_", "t", "o", "n", "s">>,
     co2 |-> <<"c", "o", "2">>,
     carbon_tons |-> <<"c", "a", "r", "b", "o", "n", "_", "t", "o", "n", "s">>,
     emissions_tons |-> <<"e", "m", "i", "s", "s", "i", "o", "n", "s", "_", "t", "o", "n", "s">>]

Contains(sub, chars) ==
    \E i \in 0..(Len(chars) - Len(sub)) :
        \A j \in 1..Len(sub) : chars[i + j] = sub[j]

(***************************************************************************)
(* float(x): a number converts, a numeric string parses, anything else     *)
(* raises (ValueError / TypeError).                                        *)
(***************************************************************************)
NumericStrings == [s \in {"999", "12.5"} |-> IF s = "999" THEN 999000 ELSE 12500]

ToFloat(v) ==
    IF v.t = "num" THEN [ok |-> TRUE, n |-> v.n]
    ELSE IF v.t = "str" /\ v.s \in DOMAIN NumericStrings
         THEN [ok |-> TRUE, n |-> NumericStrings[v.s]]
         ELSE [ok |-> FALSE, n |-> 0]

(***************************************************************************)
(* round(n / m) to the nearest integer, ties to even (m > 0).              *)
(***************************************************************************)
RoundDiv(n, m) ==
    LET q == n \div m
        r == n % m
    IN  IF 2 * r < m THEN q
        ELSE IF 2 * r > m THEN q + 1
        ELSE IF q % 2 = 0 THEN q ELSE q + 1

Pow10(k) == IF k = 0 THEN 1 ELSE IF k = 1 THEN 10 ELSE IF k = 2 THEN 100 ELSE 1000

\* thousandths in one unit of the canonical precision (10 for 2 places)
PerUnit == 1000 \div Pow10(DEFAULT_DECIMAL_PLACES)

(***************************************************************************)
(* DataNormalizer._calculate_co2_from_metrics                              *)
(***************************************************************************)
\* variant: the fallback value is the smallest accepted amount instead of 0.0
CalculateCo2FromMetricsMin(entry) ==
    IF "energy_kwh" \in DOMAIN entry
    THEN LET f == ToFloat(entry["energy_kwh"])
         IN  IF ~f.ok THEN [ok |-> FALSE, co2 |-> 0]
             ELSE [ok |-> TRUE, co2 |-> RoundDiv(f.n, PerUnit * 1000 * 2)]
    ELSE [ok |-> TRUE, co2 |-> 1]

CalculateCo2FromMetrics(entry) ==
    IF "energy_kwh" \in DOMAIN entry
    THEN LET f == ToFloat(entry["energy_kwh"])
         IN  IF ~f.ok THEN [ok |-> FALSE, co2 |-> 0]
             \* (energy_kwh / 1000) * 0.5, rounded
             ELSE [ok |-> TRUE, co2 |-> RoundDiv(f.n, PerUnit * 1000 * 2)]
    ELSE [ok |-> TRUE, co2 |-> 0]

(***************************************************************************)
(* DataNormalizer._extract_co2_tons                                        *)
(***************************************************************************)
\* variant: co2 is looked up before co2_tons
co2_fieldsCo2First == <<"co2", "co2_tons", "carbon_tons", "emissions_tons">>

co2_fields == <<"co2_tons", "co2_tons", "co2", "carbon_tons", "emissions_tons">>

RECURSIVE ExtractCo2From(_, _)
ExtractCo2From(entry, i) ==
    IF i > Len(co2_fields) THEN CalculateCo2FromMetrics(entry)
    ELSE LET field == co2_fields[i]
         IN  IF field \in DOMAIN entry
             THEN LET f == ToFloat(entry[field])
                      divisor == IF Contains(<<"k", "g">>, FieldChars[field]) THEN 1000
                                 ELSE IF Contains(<<"g">>, FieldChars[field]) THEN 1000000
                                 ELSE 1
                  IN  IF ~f.ok THEN [ok |-> FALSE, co2 |-> 0]
                      ELSE [ok |-> TRUE, co2 |-> RoundDiv(f.n, PerUnit * divisor)]
             ELSE ExtractCo2From(entry, i + 1)

ExtractCo2Tons(entry) == ExtractCo2From(entry, 1)

(***************************************************************************)
(* Timestamps.  datetime.fromisoformat(s.replace('Z', '+00:00')) and       *)
(* isoformat(), tabulated over the strings the model uses.                 *)
(***************************************************************************)
NowStamps == <<"2026-11-03T10:00:00.000001", "2026-11-03T10:00:00.000002">>

ReplaceZ(s) == IF s = "2024-01-01T00:00:00Z" THEN "2024-01-01T00:00:00+00:00" ELSE s

FromIso(s) ==
    IF s \in {"2024-01-01T00:00:00+00:00", "2024-01-01T00:00:00", "2024-01-02T00:00:00",
              NowStamps[1], NowStamps[2]}
    THEN [ok |-> TRUE, iso |-> s]
    ELSE IF s = "2024-01-02" THEN [ok |-> TRUE, iso |-> "2024-01-02T00:00:00"]
    ELSE [ok |-> FALSE, iso |-> ""]

(***************************************************************************)
(* DataNormalizer._extract_timestamp; now is the reading of utcnow().      *)
(* A datetime (Dt, named by its isoformat()) is reformatted, a string is   *)
(* parsed and re-serialized or passed through.  A value that is neither    *)
(* returns nothing in its iteration, so the loop goes on to the next name. *)
(***************************************************************************)
timestamp_fields == <<"timestamp", "datetime", "date", "time", "created_at">>

RECURSIVE ExtractTimestampFrom(_, _, _)
ExtractTimestampFrom(entry, now, i) ==
    IF i > Len(timestamp_fields) THEN now
    ELSE LET field == timestamp_fields[i]
         IN  IF field \in DOMAIN entry /\ entry[field].t = "dt"
             THEN entry[field].s
             ELSE IF field \in DOMAIN entry /\ entry[field].t = "str"
             THEN LET p == FromIso(ReplaceZ(entry[field].s))
                  IN  IF p.ok THEN p.iso ELSE entry[field].s
             ELSE ExtractTimestampFrom(entry, now, i + 1)

ExtractTimestamp(entry, now) == ExtractTimestampFrom(entry, now, 1)

(***************************************************************************)
(* str(x) of the values used as identifiers                                *)
(***************************************************************************)
PyStr(v) ==
    IF v.t = "str" THEN v.s
    ELSE IF v.t = "none" THEN "None"
    ELSE IF v.t \in {"map", "dt"} THEN v.s
    ELSE IF v.n = 7000 THEN "7" ELSE "0"

(***************************************************************************)
(* CarbonDataPoint: the Pydantic model.  The bounds ge / le are checked on *)
(* the incoming value, then round_co2_tons rounds it, then                 *)
(* validate_timestamp parses the timestamp.                                *)
(***************************************************************************)
NoRecord ==
    [project_id |-> "", co2_tons |-> 0, timestamp |-> "", source |-> "",
     location |-> "", metadata |-> "", verification_status |-> ""]

\* variant: co2_tons is declared without the bounds ge and le
CarbonDataPointUnbounded(n) ==
    IF ~FromIso(ReplaceZ(n.timestamp)).ok THEN [ok |-> FALSE, rec |-> NoRecord]
    ELSE IF n.location.t # "map" \/ n.metadata.t # "map" THEN [ok |-> FALSE, rec |-> NoRecord]
    ELSE IF n.verification_status.t \notin {"str", "num"} THEN [ok |-> FALSE, rec |-> NoRecord]
    ELSE [ok |-> TRUE,
          rec |-> [project_id |-> n.project_id,
                   co2_tons |-> RoundDiv(n.co2_tons * PerUnit, PerUnit),
                   timestamp |-> n.timestamp,
                   source |-> n.source,
                   location |-> n.location.s,
                   metadata |-> n.metadata.s,
                   verification_status |-> PyStr(n.verification_status)]]

CarbonDataPoint(n) ==
    IF n.co2_tons < MIN_CO2_TONS \/ n.co2_tons > MAX_CO2_TONS THEN [ok |-> FALSE, rec |-> NoRecord]
    ELSE IF ~FromIso(ReplaceZ(n.timestamp)).ok THEN [ok |-> FALSE, rec |-> NoRecord]
    ELSE IF n.location.t # "map" \/ n.metadata.t # "map" THEN [ok |-> FALSE, rec |-> NoRecord]
    ELSE IF n.verification_status.t \notin {"str", "num"} THEN [ok |-> FALSE, rec |-> NoRecord]
    ELSE [ok |-> TRUE,
          rec |-> [project_id |-> n.project_id,
                   co2_tons |-> RoundDiv(n.co2_tons * PerUnit, PerUnit),
                   timestamp |-> n.timestamp,
                   source |-> n.source,
                   location |-> n.location.s,
                   metadata |-> n.metadata.s,
                   verification_status |-> PyStr(n.verification_status)]]

(***************************************************************************)
(* DataNormalizer._normalize_entry; ok = FALSE stands for the exception    *)
(* that normalize catches.                                                 *)
(***************************************************************************)
Get(entry, field, default) == IF field \in DOMAIN entry THEN entry[field] ELSE default

\* variant: the fallback without project_id and without id is "unknown"
ProjectIdPlain(entry) ==
    IF "project_id" \in DOMAIN entry THEN PyStr(entry["project_id"])
    ELSE IF "id" \in DOMAIN entry THEN "unknown_" \o PyStr(entry["id"])
    ELSE "unknown"

\* str(entry.get("project_id", f"unknown_{entry.get('id', 'unknown')}"))
ProjectId(entry) ==
    IF "project_id" \in DOMAIN entry THEN PyStr(entry["project_id"])
    ELSE IF "id" \in DOMAIN entry THEN "unknown_" \o PyStr(entry["id"])
    ELSE "unknown_unknown"

NormalizeEntry(entry, now) ==
    LET project_id == ProjectId(entry)
        co2 == ExtractCo2Tons(entry)
        timestamp == ExtractTimestamp(entry, now)
    IN  IF ~co2.ok THEN [ok |-> FALSE, rec |-> NoRecord]
        ELSE CarbonDataPoint(
                [project_id |-> project_id,
                 co2_tons |-> co2.co2,
                 timestamp |-> timestamp,
                 source |-> PyStr(Get(entry, "source", Str("unknown"))),
                 location |-> Get(entry, "location", Map("{}")),
                 metadata |-> Get(entry, "metadata", Map("{}")),
                 verification_status |-> Get(entry, "verification_status", Str("pending"))])

(***************************************************************************)
(* DataNormalizer.normalize.  clk[i] is the reading of utcnow() while      *)
(* entry i is normalized.  NormalizeKept is the sequence of the positions  *)
(* of the entries appended to the output, in the order of the loop.        *)
(***************************************************************************)
RECURSIVE NormalizeLoopAbort(_, _, _, _)
RECURSIVE NormalizeLoop(_, _, _, _)
\* variant: the first failing entry ends the loop
NormalizeLoopAbort(raw_data, clk, i, kept) ==
    IF i > Len(raw_data) THEN kept
    ELSE IF NormalizeEntry(raw_data[i], clk[i]).ok
         THEN NormalizeLoopAbort(raw_data, clk, i + 1, Append(kept, i))
         ELSE kept

NormalizeLoop(raw_data, clk, i, kept) ==
    IF i > Len(raw_data) THEN kept
    ELSE IF NormalizeEntry(raw_data[i], clk[i]).ok
         THEN NormalizeLoop(raw_data, clk, i + 1, Append(kept, i))
         ELSE NormalizeLoop(raw_data, clk, i + 1, kept)

NormalizeKept(raw_data, clk) == NormalizeLoop(raw_data, clk, 1, <<>>)

Normalize(raw_data, clk) ==
    LET kept == NormalizeKept(raw_data, clk)
    IN  [k \in 1..Len(kept) |-> NormalizeEntry(raw_data[kept[k]], clk[kept[k]]).rec]

(***************************************************************************)
(* DataNormalizer._is_valid_entry and DataNormalizer.clean                 *)
(***************************************************************************)
IsValidEntry(entry) ==
    /\ \A k \in 1..Len(REQUIRED_FIELDS) : REQUIRED_FIELDS[k] \in DOMAIN entry
    /\ ~(entry.co2_tons <= 0)
    /\ ~(entry.co2_tons < MIN_CO2_TONS)
    /\ ~(entry.co2_tons > MAX_CO2_TONS)
    /\ FromIso(ReplaceZ(entry.timestamp)).ok

RECURSIVE CleanLoop(_, _, _)
CleanLoop(data, i, kept) ==
    IF i > Len(data) THEN kept
    ELSE IF IsValidEntry(data[i])
         THEN CleanLoop(data, i + 1, Append(kept, i))
         ELSE CleanLoop(data, i + 1, kept)

CleanKept(data) == CleanLoop(data, 1, <<>>)

Clean(data) ==
    LET kept == CleanKept(data) IN [k \in 1..Len(kept) |-> data[kept[k]]]

(***************************************************************************)
(* DataNormalizer.deduplicate                                              *)
(***************************************************************************)
\* variant: the key leaves the timestamp out
DedupKeyProjectOnly(entry) == <<entry.project_id, "">>

DedupKey(entry) == <<entry.project_id, entry.timestamp>>

RECURSIVE DeduplicateLoopForget(_, _, _, _)
RECURSIVE DeduplicateLoop(_, _, _, _)
\* variant: a key is forgotten once a duplicate of it has been dropped
DeduplicateLoopForget(data, i, seen, kept) ==
    IF i > Len(data) THEN kept
    ELSE IF DedupKey(data[i]) \notin seen
         THEN DeduplicateLoopForget(data, i + 1, seen \cup {DedupKey(data[i])}, Append(kept, i))
         ELSE DeduplicateLoopForget(data, i + 1, seen \ {DedupKey(data[i])}, kept)

DeduplicateLoop(data, i, seen, kept) ==
    IF i > Len(data) THEN kept
    ELSE IF DedupKey(data[i]) \notin seen
         THEN DeduplicateLoop(data, i + 1, seen \cup {DedupKey(data[i])}, Append(kept, i))
         ELSE DeduplicateLoop(data, i + 1, seen, kept)

\* variant: the last record of each key is the one kept
DeduplicateKeptLast(data) ==
    LET lastOnes == {i \in 1..Len(data) :
                        \A j \in (i + 1)..Len(data) : DedupKey(data[j]) # DedupKey(data[i])}
        nth(k) == CHOOSE i \in lastOnes : Cardinality({j \in lastOnes : j < i}) = k - 1
    IN  [k \in 1..Cardinality(lastOnes) |-> nth(k)]

DeduplicateKept(data) == DeduplicateLoop(data, 1, {}, <<>>)

Deduplicate(data) ==
    LET kept == DeduplicateKept(data) IN [k \in 1..Len(kept) |-> data[kept[k]]]

\* positions of the input behind each element of a filtered sequence
Compose(origin, kept) == [k \in 1..Len(kept) |-> origin[kept[k]]]

(***************************************************************************)
(* DataStorage                                                             *)
(***************************************************************************)
AllFormats == {"json", "csv", "sqlite"}

\* json.dumps of a dict, over the dicts the model uses
JsonDumps(d) == IF d = "{}" THEN "{}" ELSE "{\"lat\": 1, \"lon\": 2}"

\* modification time of the k-th file written by the s-th call of save
Mtime(s, k) == 4 * s + k

NoFile == [exists |-> FALSE, mtime |-> 0, partial |-> FALSE, count |-> 0, data |-> <<>>]

(***************************************************************************)
(* DataStorage._save_json: open(..., "w") truncates, json.dump writes      *)
(* {metadata: {timestamp, record_count, version}, data}.  fault "json_open"*)
(* is open failing, "json_dump" is the dump failing after the truncation.  *)
(***************************************************************************)
\* variant: the batch is appended to the data array already in the file
SaveJsonAppend(file, data, mtime, fault) ==
    IF fault = "json_open" THEN file
    ELSE IF fault = "json_dump"
         THEN [exists |-> TRUE, mtime |-> mtime, partial |-> TRUE, count |-> 0, data |-> <<>>]
         ELSE [exists |-> TRUE, mtime |-> mtime, partial |-> FALSE,
               count |-> Len(data), data |-> file.data \o data]

SaveJson(file, data, mtime, fault) ==
    IF fault = "json_open" THEN file
    ELSE IF fault = "json_dump"
         THEN [exists |-> TRUE, mtime |-> mtime, partial |-> TRUE, count |-> 0, data |-> <<>>]
         ELSE [exists |-> TRUE, mtime |-> mtime, partial |-> FALSE,
               count |-> Len(data), data |-> data]

(***************************************************************************)
(* DataStorage._flatten_dict, as far as the field names go: a field whose  *)
(* value is a dict contributes parent_child for each key of the dict (none *)
(* for an empty dict), every other field its own name.  In a canonical     *)
(* record location and metadata hold dicts.                                *)
(***************************************************************************)
DictFields == {"location", "metadata"}

\* keys of a dict, over the dicts the model uses
DictKeys(d) == IF d = "{}" THEN {} ELSE {"lat", "lon"}

FlattenDict(record) ==
    UNION {IF k \in DictFields THEN {k \o "_" \o c : c \in DictKeys(record[k])} ELSE {k} :
           k \in DOMAIN record}

\* sorted() of a set of field names: the names the model uses, in the order
\* of Python's string comparison
SortedNames ==
    <<"co2_tons", "location", "location_lat", "location_lon", "metadata", "metadata_lat",
      "metadata_lon", "project_id", "source", "timestamp", "verification_status">>

Sorted(names) == SelectSeq(SortedNames, LAMBDA n : n \in names)

\* variant: only the flattened names are collected
FieldnamesFlattened(data) ==
    UNION {FlattenDict(data[k]) : k \in 1..Len(data)}

\* the set fieldnames of _save_csv: record.keys() of every record, then the
\* keys of every flattened record
Fieldnames(data) ==
    UNION {DOMAIN data[k] \cup FlattenDict(data[k]) : k \in 1..Len(data)}

(***************************************************************************)
(* DataStorage._save_csv: nothing is written for an empty batch; otherwise *)
(* the file is overwritten with the header sorted(fieldnames) and one row  *)
(* per record.  fault "csv_open" is open failing, "csv_write" the writer   *)
(* failing after the truncation.                                           *)
(***************************************************************************)
NoCsv == [exists |-> FALSE, mtime |-> 0, partial |-> FALSE, count |-> 0, data |-> <<>>,
          header |-> <<>>]

\* variant: an empty batch is written as a file without rows
SaveCsvEmpty(file, data, mtime, fault) ==
    IF fault = "csv_open" THEN file
    ELSE IF fault = "csv_write"
         THEN [exists |-> TRUE, mtime |-> mtime, partial |-> TRUE, count |-> 0, data |-> <<>>,
               header |-> <<>>]
         ELSE [exists |-> TRUE, mtime |-> mtime, partial |-> FALSE,
               count |-> Len(data), data |-> data, header |-> Sorted(Fieldnames(data))]

SaveCsv(file, data, mtime, fault) ==
    IF data = <<>> THEN file
    ELSE IF fault = "csv_open" THEN file
    ELSE IF fault = "csv_write"
         THEN [exists |-> TRUE, mtime |-> mtime, partial |-> TRUE, count |-> 0, data |-> <<>>,
               header |-> <<>>]
         ELSE [exists |-> TRUE, mtime |-> mtime, partial |-> FALSE,
               count |-> Len(data), data |-> data, header |-> Sorted(Fieldnames(data))]

(***************************************************************************)
(* The carbon_data table: rows with an AUTOINCREMENT id (seq is the last   *)
(* id given out) and UNIQUE(project_id, timestamp).                        *)
(***************************************************************************)
NoDb == [exists |-> FALSE, table |-> FALSE, mtime |-> 0, seq |-> 0, rows |-> {}]

RowKey(r) == <<r.project_id, r.timestamp>>

\* variant: a plain INSERT without the uniqueness constraint
UpsertKeepBoth(db, record, now) ==
    [db EXCEPT !.seq = db.seq + 1,
               !.rows = db.rows \cup
                   {[id |-> db.seq + 1,
                     project_id |-> record.project_id,
                     co2_tons |-> record.co2_tons,
                     timestamp |-> record.timestamp,
                     source |-> record.source,
                     location |-> JsonDumps(record.location),
                     metadata |-> JsonDumps(record.metadata),
                     verification_status |-> record.verification_status,
                     created_at |-> now]}]

\* variant: INSERT OR IGNORE, the row already stored for the key stays
UpsertIgnore(db, record, now) ==
    IF \E r \in db.rows : RowKey(r) = DedupKey(record) THEN db
    ELSE UpsertKeepBoth(db, record, now)

\* variant: the insert replaces the rows of the table, whatever their key
UpsertTruncate(db, record, now) ==
    [db EXCEPT !.seq = db.seq + 1,
               !.rows = {[id |-> db.seq + 1,
                          project_id |-> record.project_id,
                          co2_tons |-> record.co2_tons,
                          timestamp |-> record.timestamp,
                          source |-> record.source,
                          location |-> JsonDumps(record.location),
                          metadata |-> JsonDumps(record.metadata),
                          verification_status |-> record.verification_status,
                          created_at |-> now]}]

\* INSERT OR REPLACE of one record, at second now (created_at): the row of the
\* same key is deleted and the record inserted under the next id
Upsert(db, record, now) ==
    LET kept == {r \in db.rows : RowKey(r) # DedupKey(record)}
    IN  [db EXCEPT !.seq = db.seq + 1,
                   !.rows = kept \cup
                       {[id |-> db.seq + 1,
                         project_id |-> record.project_id,
                         co2_tons |-> record.co2_tons,
                         timestamp |-> record.timestamp,
                         source |-> record.source,
                         location |-> JsonDumps(record.location),
                         metadata |-> JsonDumps(record.metadata),
                         verification_status |-> record.verification_status,
                         created_at |-> now]}]

RECURSIVE UpsertAll(_, _, _, _)
UpsertAll(db, data, i, now) ==
    IF i > Len(data) THEN db
    ELSE UpsertAll(Upsert(db, data[i], now), data, i + 1, now)

(***************************************************************************)
(* DataStorage._save_sqlite: connect creates the file, the table is made   *)
(* if missing, every record is upserted and the transaction committed.     *)
(* fault "sqlite" is an exception before the commit: the inserts are       *)
(* rolled back.  The file is modified when it is created or rows are       *)
(* committed.                                                              *)
(***************************************************************************)
\* variant: every insert is committed on its own, so the first one stays when
\* the write ends before its end
SaveSqliteAutocommit(db, data, mtime, now, fault) ==
    LET created == IF db.table THEN db
                   ELSE [db EXCEPT !.exists = TRUE, !.table = TRUE, !.mtime = mtime]
    IN  IF data = <<>> THEN created
        ELSE IF fault = "sqlite" THEN [Upsert(created, data[1], now) EXCEPT !.mtime = mtime]
        ELSE [UpsertAll(created, data, 1, now) EXCEPT !.mtime = mtime]

SaveSqlite(db, data, mtime, now, fault) ==
    LET created == IF db.table THEN db
                   ELSE [db EXCEPT !.exists = TRUE, !.table = TRUE, !.mtime = mtime]
    IN  IF fault = "sqlite" \/ data = <<>> THEN created
        ELSE [UpsertAll(created, data, 1, now) EXCEPT !.mtime = mtime]

(***************************************************************************)
(* DataStorage.load_json: a missing file and a document json.load cannot   *)
(* parse (a dump cut short) both give []; otherwise the data array.  The   *)
(* values of a canonical record (str, float, dict of these) are read back  *)
(* as they were dumped.                                                    *)
(***************************************************************************)
LoadJsonResult(file) ==
    IF ~file.exists THEN <<>>
    ELSE IF file.partial THEN <<>>
    ELSE file.data

(***************************************************************************)
(* DataStorage.load_sqlite(limit).  The columns location and metadata are  *)
(* nullable TEXT: Null stands for SQL NULL.  json.loads is modelled over   *)
(* the texts the model uses; ok = FALSE is JSONDecodeError.                *)
(***************************************************************************)
Null == "<NULL>"

JsonLoads(text) ==
    IF text = "{}" THEN [ok |-> TRUE, value |-> "{}"]
    ELSE IF text = "{\"lat\": 1, \"lon\": 2}" THEN [ok |-> TRUE, value |-> "{lat:1,lon:2}"]
    ELSE [ok |-> FALSE, value |-> ""]

\* json.loads(row[column]) if row[column] else {}
Blob(text) == IF text \in {Null, ""} THEN [ok |-> TRUE, value |-> "{}"] ELSE JsonLoads(text)

\* the timestamps of the rows the model reads back, in the order SQLite
\* compares TEXT
TimestampOrder ==
    <<"2024-01-01T00:00:00+00:00", "2024-01-02T00:00:00+00:00", "2024-01-03T00:00:00+00:00">>

TextRank(ts) == CHOOSE k \in 1..Len(TimestampOrder) : TimestampOrder[k] = ts

\* ORDER BY timestamp DESC: the rows in any order in which no timestamp is
\* followed by a greater one
OrderedRows(rows) ==
    {q \in [1..Cardinality(rows) -> rows] :
        /\ \A k, l \in 1..Cardinality(rows) : k # l => q[k] # q[l]
        /\ \A k, l \in 1..Cardinality(rows) :
              k < l => TextRank(q[k].timestamp) >= TextRank(q[l].timestamp)}

\* if limit: query += f" LIMIT {limit}" (a negative LIMIT is no limit)
Fetched(q, given, limit) ==
    IF given /\ limit > 0 /\ limit < Len(q) THEN SubSeq(q, 1, limit) ELSE q

\* the dict built of a fetched row
RowRecord(row) ==
    [project_id |-> row.project_id, co2_tons |-> row.co2_tons, timestamp |-> row.timestamp,
     source |-> row.source, location |-> Blob(row.location).value,
     metadata |-> Blob(row.metadata).value, verification_status |-> row.verification_status]

\* the lists load_sqlite can return: [] when the table is missing or a
\* json.loads raises (except Exception: return [])
LoadSqliteResults(db, given, limit) ==
    IF ~db.table THEN {<<>>}
    ELSE {IF \E k \in 1..Len(q) : ~Blob(q[k].location).ok \/ ~Blob(q[k].metadata).ok
          THEN <<>>
          ELSE [k \in 1..Len(q) |-> RowRecord(q[k])] :
          q \in {Fetched(o, given, limit) : o \in OrderedRows(db.rows)}}

(***************************************************************************)
(* DataStorage._create_backup: shutil.copy2 of each existing output file   *)
(* to carbon_data_<YYYYmmdd_HHMMSS>.<ext> (copy2 keeps the source's        *)
(* modification time; a file of the same name is overwritten).  The first  *)
(* failing copy ends the method: the except clause logs and returns.       *)
(***************************************************************************)
PutBackup(bk, stamp, ext, mtime) ==
    {b \in bk : ~(b.stamp = stamp /\ b.ext = ext)}
        \cup {[stamp |-> stamp, ext |-> ext, mtime |-> mtime]}

CopyStep(st, exists, mtime, stamp, ext, fails) ==
    IF st.aborted \/ ~exists THEN st
    ELSE IF fails THEN [st EXCEPT !.aborted = TRUE]
    ELSE [st EXCEPT !.bk = PutBackup(st.bk, stamp, ext, mtime)]

BackupCopies(bk, js, cs, db, stamp, bfault) ==
    LET s0 == [bk |-> bk, aborted |-> FALSE]
        s1 == CopyStep(s0, js.exists, js.mtime, stamp, "json", bfault = "copy_json")
        s2 == CopyStep(s1, cs.exists, cs.mtime, stamp, "csv", bfault = "copy_csv")
        s3 == CopyStep(s2, db.exists, db.mtime, stamp, "db", bfault = "copy_db")
    IN  s3

(***************************************************************************)
(* DataStorage._cleanup_old_backups: sort by st_mtime, newest first, and   *)
(* unlink everything after the first MAX_BACKUPS.  sorted() is stable, so  *)
(* files of equal mtime stay in the order glob() listed them, which is     *)
(* arbitrary: CleanupResults is the set of directories the method can      *)
(* leave.                                                                  *)
(***************************************************************************)
CleanupResults(bk) ==
    IF Cardinality(bk) <= MAX_BACKUPS THEN {bk}
    ELSE LET sure == {b \in bk :
                        Cardinality({c \in bk : c.mtime >= b.mtime}) <= MAX_BACKUPS}
             tied == {b \in bk \ sure :
                        Cardinality({c \in bk : c.mtime > b.mtime}) < MAX_BACKUPS}
         IN  {sure \cup t : t \in {u \in SUBSET tied :
                                     Cardinality(u) = MAX_BACKUPS - Cardinality(sure)}}

\* directories _create_backup can leave; a failure in the cleanup is logged there
CreateBackupResults(bk, js, cs, db, stamp, bfault) ==
    LET st == BackupCopies(bk, js, cs, db, stamp, bfault)
    IN  IF st.aborted \/ bfault = "cleanup" THEN {st.bk}
        ELSE CleanupResults(st.bk)

\* variant: the failure of a backup step leaves _create_backup as an exception
BackupRaisesAlways(bfault) == bfault # "none"

\* _create_backup catches every Exception and logs it: nothing reaches save
BackupRaises(bfault) == FALSE

(***************************************************************************)
(* State                                                                   *)
(***************************************************************************)
VARIABLES
    raw,              \* all_data: the raw batch DataPipeline.run hands to the normalizer
    clock,            \* utcnow() readings taken by normalize (0: not read for that entry)
    normalized_data,  \* run: result of normalize
    cleaned_data,     \* run: result of clean
    final_data,       \* run: result of deduplicate
    origin,           \* positions in raw behind normalized_data, cleaned_data, final_data
    pc,               \* position of run
    jsonFile,         \* StorageConfig.JSON_OUTPUT
    csvFile,          \* StorageConfig.CSV_OUTPUT
    db,               \* StorageConfig.SQLITE_DB with its carbon_data table
    backups,          \* StorageConfig.BACKUP_DIR: the backup files
    sec,              \* wall clock, in seconds
    saves,            \* calls of DataStorage.save so far
    last,             \* the last call of save: arguments, injected faults, outcome
    loaded            \* what the last call returned, if it was load_json or load_sqlite

vars == <<raw, clock, normalized_data, cleaned_data, final_data, origin, pc,
          jsonFile, csvFile, db, backups, sec, saves, last, loaded>>

pipeVars == <<raw, clock, normalized_data, cleaned_data, final_data, origin, pc>>

(***************************************************************************)
(* What a call returns to its caller: op is "none" after a call of save,   *)
(* else the load called; limit is the argument of load_sqlite (given =     *)
(* FALSE: the default None); result is the list returned.                  *)
(***************************************************************************)
NoLoad == [op |-> "none", given |-> FALSE, limit |-> 0, result |-> <<>>]

(***************************************************************************)
(* DataStorage.save(data, formats).  adv is the time since the previous    *)
(* call in whole seconds, bfault the step of _create_backup that fails,    *)
(* wfault the format write that fails.  An exception of a format write     *)
(* propagates (the except clauses of _save_* re-raise), so the writes      *)
(* after it are not reached.  last records the call: its arguments and     *)
(* faults, whether it raised, the formats whose write completed, and       *)
(* whether it repeats the batch of the previous call after that call's     *)
(* relational write completed.                                             *)
(***************************************************************************)
BackupFaults == {"none", "copy_json", "copy_csv", "copy_db", "cleanup"}
WriteFaults == {"none", "json_open", "json_dump", "csv_open", "csv_write", "sqlite"}

\* the fault can happen in this call
FaultApplies(data, formats, bfault, wfault) ==
    /\ \/ bfault = "none"
       \/ ENABLE_BACKUP /\ bfault = "copy_json" /\ jsonFile.exists
       \/ ENABLE_BACKUP /\ bfault = "copy_csv" /\ csvFile.exists
       \/ ENABLE_BACKUP /\ bfault = "copy_db" /\ db.exists
       \/ ENABLE_BACKUP /\ bfault = "cleanup"
    /\ \/ wfault = "none"
       \/ wfault \in {"json_open", "json_dump"} /\ "json" \in formats
       \/ wfault \in {"csv_open", "csv_write"} /\ "csv" \in formats /\ data # <<>>
       \/ wfault = "sqlite" /\ "sqlite" \in formats

\* variant: the backup copies are made after the format writes
SaveBackupLast(data, formats, adv, bfault, wfault) ==
    LET now == sec + adv
        s == saves + 1
        backupRaised == ENABLE_BACKUP /\ BackupRaises(bfault)
        jsonTried == ~backupRaised /\ "json" \in formats
        jsonFailed == jsonTried /\ wfault \in {"json_open", "json_dump"}
        csvTried == ~backupRaised /\ ~jsonFailed /\ "csv" \in formats
        csvFailed == csvTried /\ data # <<>> /\ wfault \in {"csv_open", "csv_write"}
        sqliteTried == ~backupRaised /\ ~jsonFailed /\ ~csvFailed /\ "sqlite" \in formats
        sqliteFailed == sqliteTried /\ wfault = "sqlite"
    IN  /\ FaultApplies(data, formats, bfault, wfault)
        /\ loaded' = NoLoad
        /\ sec' = now
        /\ saves' = s
        /\ jsonFile' = IF jsonTried THEN SaveJson(jsonFile, data, Mtime(s, 0), wfault)
                       ELSE jsonFile
        /\ csvFile' = IF csvTried THEN SaveCsv(csvFile, data, Mtime(s, 1), wfault)
                      ELSE csvFile
        /\ db' = IF sqliteTried THEN SaveSqlite(db, data, Mtime(s, 2), now, wfault)
                 ELSE db
        /\ backups' \in (IF ENABLE_BACKUP
                         THEN CreateBackupResults(backups, jsonFile', csvFile', db', now, bfault)
                         ELSE {backups})
        /\ last' = [data |-> data, formats |-> formats, bfault |-> bfault, wfault |-> wfault,
                    repeat |-> saves >= 1 /\ data = last.data /\ "sqlite" \in last.written,
                    raised |-> backupRaised \/ jsonFailed \/ csvFailed \/ sqliteFailed,
                    written |-> {f \in {"json"} : jsonTried /\ ~jsonFailed}
                                \cup {f \in {"csv"} : csvTried /\ ~csvFailed}
                                \cup {f \in {"sqlite"} : sqliteTried /\ ~sqliteFailed}]

Save(data, formats, adv, bfault, wfault) ==
    LET now == sec + adv
        s == saves + 1
        backupRaised == ENABLE_BACKUP /\ BackupRaises(bfault)
        jsonTried == ~backupRaised /\ "json" \in formats
        jsonFailed == jsonTried /\ wfault \in {"json_open", "json_dump"}
        csvTried == ~backupRaised /\ ~jsonFailed /\ "csv" \in formats
        csvFailed == csvTried /\ data # <<>> /\ wfault \in {"csv_open", "csv_write"}
        sqliteTried == ~backupRaised /\ ~jsonFailed /\ ~csvFailed /\ "sqlite" \in formats
        sqliteFailed == sqliteTried /\ wfault = "sqlite"
    IN  /\ FaultApplies(data, formats, bfault, wfault)
        /\ loaded' = NoLoad
        /\ sec' = now
        /\ saves' = s
        /\ backups' \in (IF ENABLE_BACKUP
                         THEN CreateBackupResults(backups, jsonFile, csvFile, db, now, bfault)
                         ELSE {backups})
        /\ jsonFile' = IF jsonTried THEN SaveJson(jsonFile, data, Mtime(s, 0), wfault)
                       ELSE jsonFile
        /\ csvFile' = IF csvTried THEN SaveCsv(csvFile, data, Mtime(s, 1), wfault)
                      ELSE csvFile
        /\ db' = IF sqliteTried THEN SaveSqlite(db, data, Mtime(s, 2), now, wfault)
                 ELSE db
        /\ last' = [data |-> data, formats |-> formats, bfault |-> bfault, wfault |-> wfault,
                    repeat |-> saves >= 1 /\ data = last.data /\ "sqlite" \in last.written,
                    raised |-> backupRaised \/ jsonFailed \/ csvFailed \/ sqliteFailed,
                    written |-> {f \in {"json"} : jsonTried /\ ~jsonFailed}
                                \cup {f \in {"csv"} : csvTried /\ ~csvFailed}
                                \cup {f \in {"sqlite"} : sqliteTried /\ ~sqliteFailed}]

NoCall == [data |-> <<>>, formats |-> {}, bfault |-> "none", wfault |-> "none",
           repeat |-> FALSE, raised |-> FALSE, written |-> {}]

InitStorage ==
    /\ jsonFile = NoFile
    /\ csvFile = NoCsv
    /\ db = NoDb
    /\ backups = {}
    /\ sec = 0
    /\ saves = 0
    /\ last = NoCall
    /\ loaded = NoLoad

(***************************************************************************)
(* Raw records                                                             *)
(***************************************************************************)
TsZ == "2024-01-01T00:00:00Z"

Raw4(project_id, co2, timestamp, source) ==
    Merge(Fld("project_id", project_id),
          Merge(Fld("co2_tons", co2), Merge(Fld("timestamp", timestamp), Fld("source", source))))

\* the two records of the end-to-end scenario: 100.456 and 999 under one key
ExampleFirst == Raw4(Str("p1"), Num(100456), Str(TsZ), Str("s"))
ExampleSecond == Raw4(Str("p1"), Num(999000), Str(TsZ), Str("s"))
ExampleBatch == <<ExampleFirst, ExampleSecond>>

CoreRecords ==
    {ExampleFirst, ExampleSecond,
     Raw4(Str("p1"), Num(5000), Str("2024-01-01T00:00:00+00:00"), Str("s")),
     Raw4(Str("p2"), Num(100456), Str(TsZ), Str("s")),
     Raw4(Str("p1"), Num(0), Str(TsZ), Str("s")),
     Merge(Fld("project_id", Str("p1")), Merge(Fld("timestamp", Str(TsZ)), Fld("source", Str("s")))),
     Merge(Fld("project_id", Str("p2")), Fld("co2_tons", Num(7000))),
     Raw4(Str("p2"), Str("abc"), Str(TsZ), Str("s"))}

IdParts ==
    {Fld("project_id", Str("p1")), Fld("id", Str("s9")), EmptyRaw,
     Fld("project_id", Str("")), Fld("project_id", Num(7000))}

Co2Parts ==
    {Fld("co2_tons", Num(n)) : n \in {100456, 999000, 0, -1000, 4, 6, 125,
                                     1000000004, 1000000006, 1000001000}}
    \cup {Fld("co2_tons", Str("abc")), Fld("co2_tons", Str("999")), Fld("co2_tons", None),
          Fld("co2", Num(5000)), Fld("carbon_tons", Num(5000)),
          Fld("emissions_tons", Num(5000)),
          Merge(Fld("co2", Num(5000)), Fld("co2_tons", Num(7000))),
          Merge(Fld("co2", Num(5000)), Fld("carbon_tons", Num(6000))),
          Merge(Fld("carbon_tons", Num(6000)), Fld("emissions_tons", Num(8000))),
          Merge(Fld("co2_tons", Str("abc")), Fld("co2", Num(5000))),
          Merge(Fld("emissions_tons", Num(8000)), Fld("energy_kwh", Num(2000000))),
          Fld("co2_kg", Num(50000000)),
          Fld("energy_kwh", Num(2000000)), Fld("energy_kwh", Str("abc")),
          Merge(Fld("co2_tons", Num(0)), Fld("energy_kwh", Num(2000000))),
          EmptyRaw}

TsParts ==
    {Fld("timestamp", Str(TsZ)), Fld("timestamp", Str("yesterday")),
     Fld("date", Str("2024-01-02")), EmptyRaw,
     Merge(Fld("timestamp", Num(1704067000)), Fld("datetime", Str(TsZ))),
     Fld("timestamp", Num(1704067000)),
     Merge(Fld("date", Str("2024-01-02")), Fld("created_at", Dt("2024-01-01T00:00:00"))),
     Fld("created_at", Dt("2024-01-01T00:00:00"))}

OtherParts ==
    {Fld("source", Str("s")), Fld("location", Map("{lat:1,lon:2}")),
     Fld("location", Str("here")), Fld("verification_status", None)}

WideRecords ==
    {Merge(a, Merge(b, Merge(c, d))) : a \in IdParts, b \in Co2Parts, c \in TsParts,
                                      d \in OtherParts}

RECURSIVE SeqsUpTo(_, _)
SeqsUpTo(S, n) ==
    IF n = 0 THEN {<<>>}
    ELSE LET shorter == SeqsUpTo(S, n - 1)
         IN  shorter \cup {Append(q, x) : q \in {r \in shorter : Len(r) = n - 1}, x \in S}

RawBatches == SeqsUpTo(CoreRecords, MaxLen) \cup {<<r>> : r \in WideRecords}

(***************************************************************************)
(* utcnow() is read only for an entry without a usable timestamp field;    *)
(* successive readings do not decrease.                                    *)
(***************************************************************************)
NeedsNow(entry) == ExtractTimestamp(entry, "") = ""

NowOf(c) == IF c = 0 THEN "" ELSE NowStamps[c]

ClockReadings(raw_data) ==
    {c \in [1..Len(raw_data) -> 0..Len(NowStamps)] :
        /\ \A i \in 1..Len(raw_data) : (c[i] = 0) <=> ~NeedsNow(raw_data[i])
        /\ \A i, j \in 1..Len(raw_data) : (i < j /\ c[i] # 0 /\ c[j] # 0) => c[i] <= c[j]}

Readings(raw_data, c) == [i \in 1..Len(raw_data) |-> NowOf(c[i])]

(***************************************************************************)
(* DataPipeline.run, from the fetched batch on                             *)
(***************************************************************************)
NoOrigin == [normalized |-> <<>>, cleaned |-> <<>>, final |-> <<>>]

InitPipeline ==
    /\ raw \in RawBatches
    /\ clock = <<>>
    /\ normalized_data = <<>>
    /\ cleaned_data = <<>>
    /\ final_data = <<>>
    /\ origin = NoOrigin
    /\ pc = "fetched"

\* if not all_data: return
RunNoData ==
    /\ pc = "fetched"
    /\ raw = <<>>
    /\ pc' = "nodata"
    /\ UNCHANGED <<raw, clock, normalized_data, cleaned_data, final_data, origin>>
    /\ UNCHANGED <<jsonFile, csvFile, db, backups, sec, saves, last, loaded>>

RunNormalize ==
    /\ pc = "fetched"
    /\ raw # <<>>
    /\ \E c \in ClockReadings(raw) :
          /\ clock' = c
          /\ normalized_data' = Normalize(raw, Readings(raw, c))
          /\ origin' = [origin EXCEPT !.normalized = NormalizeKept(raw, Readings(raw, c))]
    /\ pc' = "normalized"
    /\ UNCHANGED <<raw, cleaned_data, final_data>>
    /\ UNCHANGED <<jsonFile, csvFile, db, backups, sec, saves, last, loaded>>

RunClean ==
    /\ pc = "normalized"
    /\ cleaned_data' = Clean(normalized_data)
    /\ origin' = [origin EXCEPT !.cleaned = Compose(origin.normalized, CleanKept(normalized_data))]
    /\ pc' = "cleaned"
    /\ UNCHANGED <<raw, clock, normalized_data, final_data>>
    /\ UNCHANGED <<jsonFile, csvFile, db, backups, sec, saves, last, loaded>>

RunDeduplicate ==
    /\ pc = "cleaned"
    /\ final_data' = Deduplicate(cleaned_data)
    /\ origin' = [origin EXCEPT !.final = Compose(origin.cleaned, DeduplicateKept(cleaned_data))]
    /\ pc' = "deduplicated"
    /\ UNCHANGED <<raw, clock, normalized_data, cleaned_data>>
    /\ UNCHANGED <<jsonFile, csvFile, db, backups, sec, saves, last, loaded>>

\* self.storage.save(final_data): formats is None, so all three
RunSave ==
    /\ pc = "deduplicated"
    /\ \E adv \in {0, 1}, wfault \in WriteFaults :
          Save(final_data, AllFormats, adv, "none", wfault)
    /\ pc' = IF last'.raised THEN "failed" ELSE "saved"
    /\ UNCHANGED <<raw, clock, normalized_data, cleaned_data, final_data, origin>>

Next == RunNoData \/ RunNormalize \/ RunClean \/ RunDeduplicate \/ RunSave

Init == InitPipeline /\ InitStorage

Spec == Init /\ [][Next]_vars

(***************************************************************************)
(* Direct use of DataStorage (example_usage.py): calls of save on a        *)
(* storage that starts empty.                                              *)
(***************************************************************************)
Canonical(project_id, co2, location, status) ==
    [project_id |-> project_id, co2_tons |-> co2, timestamp |-> "2024-01-01T00:00:00+00:00",
     source |-> "s", location |-> location, metadata |-> "{}",
     verification_status |-> status]

StoreRecords ==
    {Canonical("p1", 10046, "{}", "pending"),
     Canonical("p1", 99900, "{lat:1,lon:2}", "verified"),
     Canonical("p2", 10046, "{}", "pending")}

StoreBatches == SeqsUpTo(StoreRecords, MaxStoreLen)

StoreFormats == {AllFormats, {"json", "csv"}}

InitIdle ==
    /\ raw = <<>>
    /\ clock = <<>>
    /\ normalized_data = <<>>
    /\ cleaned_data = <<>>
    /\ final_data = <<>>
    /\ origin = NoOrigin
    /\ pc = "idle"

InitStore == InitIdle /\ InitStorage

\* storage.save(data, formats) with batches of records of two keys
StoreSave ==
    /\ saves < MaxStoreSaves
    /\ \E data \in StoreBatches, formats \in StoreFormats, adv \in {0, 1},
          wfault \in {"none", "sqlite"} :
          Save(data, formats, adv, "none", wfault)
    /\ UNCHANGED pipeVars

NextStore == StoreSave

SpecStore == InitStore /\ [][NextStore]_vars

(***************************************************************************)
(* Calls of save with failing steps: batches of no, one and two records,   *)
(* every choice of formats, one failing backup step or format write.  A    *)
(* failing step ends save where it stands (the exception propagates), and  *)
(* so leaves the output files as a crash of the process at that step does. *)
(***************************************************************************)
ThinBatches ==
    {<<>>, <<Canonical("p1", 10046, "{}", "pending")>>,
     <<Canonical("p1", 99900, "{}", "pending"), Canonical("p2", 10046, "{}", "pending")>>}

FaultPairs ==
    {<<b, "none">> : b \in BackupFaults} \cup {<<"none", w>> : w \in WriteFaults}
        \cup {<<"copy_csv", "sqlite">>}

FaultySave ==
    /\ saves < MaxFaultSaves
    /\ \E data \in ThinBatches, formats \in SUBSET AllFormats, adv \in {0, 1},
          f \in FaultPairs :
          Save(data, formats, adv, f[1], f[2])
    /\ UNCHANGED pipeVars

NextFault == FaultySave

SpecFault == InitStore /\ [][NextFault]_vars

(***************************************************************************)
(* Successive calls of save(data) of a one-record batch with the default   *)
(* formats and no failure, up to MAX_BACKUPS + 5 of them; a call follows   *)
(* the previous one within the same second or in the next.                 *)
(***************************************************************************)
BackupSave ==
    /\ saves < MAX_BACKUPS + 5
    /\ \E adv \in {0, 1} :
          Save(<<Canonical("p1", 10046, "{}", "pending")>>, AllFormats, adv, "none", "none")
    /\ UNCHANGED pipeVars

NextBackup == BackupSave

SpecBackup == InitStore /\ [][NextBackup]_vars

(***************************************************************************)
(* Successive calls of save(data) with the default formats, each in a      *)
(* second of its own, of a one-record batch or of an empty batch (which    *)
(* leaves the tabular file and the database file unmodified).              *)
(***************************************************************************)
PruneSave ==
    /\ saves < MaxPruneSaves
    /\ \E data \in {<<>>, <<Canonical("p1", 10046, "{}", "pending")>>} :
          Save(data, AllFormats, 1, "none", "none")
    /\ UNCHANGED pipeVars

NextPrune == PruneSave

SpecPrune == InitStore /\ [][NextPrune]_vars

(***************************************************************************)
(* Saves followed by reads: batches with three timestamps, read back with  *)
(* load_json and load_sqlite.  The database file may already hold a row    *)
(* written by another client of the file before the first call, with a     *)
(* location or metadata column that is NULL, empty or not JSON.            *)
(***************************************************************************)
CanonicalAt(project_id, co2, day, location) ==
    [project_id |-> project_id, co2_tons |-> co2, timestamp |-> TimestampOrder[day],
     source |-> "s", location |-> location, metadata |-> "{}",
     verification_status |-> "pending"]

LoadBatches ==
    {<<>>,
     <<CanonicalAt("p1", 10046, 1, "{}")>>,
     <<CanonicalAt("p1", 99900, 2, "{lat:1,lon:2}"), CanonicalAt("p2", 10046, 2, "{}")>>,
     <<CanonicalAt("p2", 700, 3, "{}"), CanonicalAt("p1", 500, 1, "{lat:1,lon:2}")>>}

LoadFormats == {AllFormats, {"json"}}

\* limit: None (given = FALSE), 0, 1, 2
LoadLimits == {[given |-> FALSE, limit |-> 0]} \cup {[given |-> TRUE, limit |-> n] : n \in 0..2}

ForeignRow(location, metadata) ==
    [id |-> 1, project_id |-> "p0", co2_tons |-> 500, timestamp |-> TimestampOrder[2],
     source |-> "other", location |-> location, metadata |-> metadata,
     verification_status |-> "pending", created_at |-> 0]

ForeignTables ==
    {NoDb}
    \cup {[exists |-> TRUE, table |-> TRUE, mtime |-> 0, seq |-> 1,
           rows |-> {ForeignRow(b[1], b[2])}] :
          b \in {<<Null, "{}">>, <<"", "{}">>, <<"{}", Null>>, <<"{\"lat\": 1", "{}">>,
                 <<"{}", "{\"lat\": 1">>}}

InitLoad ==
    /\ InitIdle
    /\ jsonFile = NoFile
    /\ csvFile = NoCsv
    /\ db \in ForeignTables
    /\ backups = {}
    /\ sec = 0
    /\ saves = 0
    /\ last = NoCall
    /\ loaded = NoLoad

LoadSave ==
    /\ saves < MaxLoadSaves
    /\ \E data \in LoadBatches, formats \in LoadFormats :
          Save(data, formats, 1, "none", "none")
    /\ UNCHANGED pipeVars

LoadJson ==
    /\ loaded' = [op |-> "json", given |-> FALSE, limit |-> 0,
                  result |-> LoadJsonResult(jsonFile)]
    /\ UNCHANGED <<jsonFile, csvFile, db, backups, sec, saves, last>>
    /\ UNCHANGED pipeVars

\* sqlite3.connect creates the database file if it is missing
LoadSqlite ==
    /\ \E l \in LoadLimits :
          \E result \in LoadSqliteResults(db, l.given, l.limit) :
              loaded' = [op |-> "sqlite", given |-> l.given, limit |-> l.limit,
                         result |-> result]
    /\ db' = IF db.exists THEN db ELSE [db EXCEPT !.exists = TRUE, !.mtime = Mtime(saves, 3)]
    /\ UNCHANGED <<jsonFile, csvFile, backups, sec, saves, last>>
    /\ UNCHANGED pipeVars

NextLoad == LoadSave \/ LoadJson \/ LoadSqlite

SpecLoad == InitLoad /\ [][NextLoad]_vars

(***************************************************************************)
(* Properties of the pipeline (specification Spec)                         *)
(***************************************************************************)
Range(q) == {q[k] : k \in 1..Len(q)}

\* the canonical record normalize made of raw[i], where it made one
CanonicalOf(i) == NormalizeEntry(raw[i], NowOf(clock[i])).rec

SameKey(a, b) == a.project_id = b.project_id /\ a.timestamp = b.timestamp

\* positions of the first occurrence of each (project_id, timestamp) in data
FirstOccurrences(data) ==
    {i \in 1..Len(data) : \A j \in 1..(i - 1) : ~SameKey(data[j], data[i])}

\* the subsequence of data at the positions in P, in input order
SubsequenceAt(data, P) ==
    [k \in 1..Cardinality(P) |->
        data[CHOOSE i \in P : Cardinality({j \in P : j < i}) = k - 1]]

\* C1: deduplicate returns exactly the first occurrence of each
\* (project_id, timestamp) key, in input order; a later record with a seen key
\* is dropped whatever its other fields, and no first occurrence is dropped.
C1_FirstOccurrenceKept ==
    pc \in {"deduplicated", "saved", "failed"} =>
        final_data = SubsequenceAt(cleaned_data, FirstOccurrences(cleaned_data))

\* C1 witness: deduplicate dropped a later record whose co2_tons differs from
\* the kept record of its key, and kept records of two keys.
C1_Witness ==
    /\ pc = "deduplicated"
    /\ Len(final_data) >= 2
    /\ \E i, j \in 1..Len(cleaned_data) :
          /\ i < j
          /\ SameKey(cleaned_data[i], cleaned_data[j])
          /\ cleaned_data[i].co2_tons # cleaned_data[j].co2_tons
          /\ cleaned_data[i] \in Range(final_data)
          /\ cleaned_data[j] \notin Range(final_data)

\* the record of example_usage.py: the CO2 amount only under co2_kg
KgExample ==
    Merge(Fld("project_id", Str("p1")),
          Merge(Fld("co2_kg", Num(50000000)),
                Merge(Fld("timestamp", Str(TsZ)), Fld("source", Str("s")))))

\* C7: a raw record whose CO2 value is given in kilograms under co2_kg
\* (co2_kg: 50000, no other CO2 field) is normalized to a canonical record with
\* co2_tons = 50.0.
C7_KgConverted ==
    (pc = "normalized" /\ raw = <<KgExample>>) =>
        /\ Len(normalized_data) = 1
        /\ normalized_data[1].co2_tons = 5000

\* every record the run has written to an output
Persisted ==
    Range(jsonFile.data) \cup Range(csvFile.data)
        \cup {[project_id |-> r.project_id, co2_tons |-> r.co2_tons,
               timestamp |-> r.timestamp, source |-> r.source,
               location |-> r.location, metadata |-> r.metadata,
               verification_status |-> r.verification_status] : r \in db.rows}

\* C8: every record that survives normalize followed by clean, and every record
\* the pipeline persists, has 0.01 <= co2_tons <= 1000000.
C8_Co2WithinBounds ==
    /\ \A k \in 1..Len(cleaned_data) :
          cleaned_data[k].co2_tons >= 1 /\ cleaned_data[k].co2_tons <= 100000000
    /\ \A r \in Persisted : r.co2_tons >= 1 /\ r.co2_tons <= 100000000

\* C8 witness: raw values on both sides of each bound went through normalize and
\* clean: 0.006 and 1000000.004 survive at the bounds 0.01 and 1000000.0.
C8_Witness ==
    /\ pc = "saved"
    /\ Len(raw) = 1
    /\ "co2_tons" \in DOMAIN raw[1]
    /\ raw[1]["co2_tons"] \in {Num(6), Num(1000000004)}
    /\ Len(cleaned_data) = 1
    /\ cleaned_data[1].co2_tons \in {1, 100000000}
    /\ jsonFile.data = cleaned_data

CO2Sources == {"co2_tons", "co2", "carbon_tons", "emissions_tons", "energy_kwh"}

\* C9: a raw record with none of the recognized CO2 fields and no energy_kwh
\* field gets co2_tons = 0.0 from the extraction and is rejected: it is in no
\* stage's output and is never persisted.
C9_NoCo2Rejected ==
    \A i \in 1..Len(raw) :
        (DOMAIN raw[i]) \cap CO2Sources = {} =>
            /\ ExtractCo2Tons(raw[i]) = [ok |-> TRUE, co2 |-> 0]
            /\ i \notin Range(origin.normalized)
            /\ i \notin Range(origin.cleaned)
            /\ i \notin Range(origin.final)
            /\ (pc = "saved" => Len(jsonFile.data) = Len(origin.final))

\* C9 witness: a batch held a record without any CO2 source next to a valid
\* record, and the run saved only the valid one.
C9_Witness ==
    /\ pc = "saved"
    /\ \E i \in 1..Len(raw) : (DOMAIN raw[i]) \cap CO2Sources = {}
    /\ Len(jsonFile.data) >= 1
    /\ Len(jsonFile.data) < Len(raw)

\* C10: after normalize, clean, deduplicate and save the stored batch holds at
\* most one record per (project_id, timestamp), each key of a valid record is
\* stored, and the stored record carries the values of the first record of the
\* batch with that key that normalize and clean accept; the two records
\* (p1, 2024-01-01T00:00:00Z) with 100.456 and 999 are stored as one record
\* with co2_tons = 100.46.
C10_FirstWinsStored ==
    pc = "saved" =>
        /\ Len(jsonFile.data) = Len(origin.final)
        /\ \A a, b \in 1..Len(jsonFile.data) :
              SameKey(jsonFile.data[a], jsonFile.data[b]) => a = b
        /\ \A k \in 1..Len(jsonFile.data) :
              /\ jsonFile.data[k] = CanonicalOf(origin.final[k])
              /\ \A j \in Range(origin.cleaned) :
                    SameKey(CanonicalOf(j), jsonFile.data[k]) => origin.final[k] <= j
        /\ \A j \in Range(origin.cleaned) :
              \E k \in 1..Len(jsonFile.data) : SameKey(CanonicalOf(j), jsonFile.data[k])
        /\ raw = ExampleBatch =>
              /\ Len(jsonFile.data) = 1
              /\ jsonFile.data[1].co2_tons = 10046

\* C10 witness: the run of the example batch has saved.
C10_Witness ==
    /\ pc = "saved"
    /\ raw = ExampleBatch
    /\ Len(cleaned_data) = 2
    /\ jsonFile.exists

(***************************************************************************)
(* Properties of DataStorage (specifications SpecStore, SpecFault,         *)
(* SpecBackup)                                                             *)
(***************************************************************************)
FailedFormat(wfault) ==
    IF wfault \in {"json_open", "json_dump"} THEN "json"
    ELSE IF wfault \in {"csv_open", "csv_write"} THEN "csv"
    ELSE "sqlite"

\* C2: in save each requested format write is independent: when the write of one
\* format fails, the writes of the other requested formats are still attempted
\* and completed.
C2_WritesIndependent ==
    (saves >= 1 /\ last.wfault # "none") =>
        \A f \in last.formats : f # FailedFormat(last.wfault) => f \in last.written

\* the table without the internal row ids and created_at
Content(table) ==
    {[project_id |-> r.project_id, co2_tons |-> r.co2_tons, timestamp |-> r.timestamp,
      source |-> r.source, location |-> r.location, metadata |-> r.metadata,
      verification_status |-> r.verification_status] : r \in table.rows}

\* C3: saving the same batch a second time to the relational format leaves the
\* table with the same number of rows and the same field values as saving it
\* once; only the row ids may differ.
C3_SameBatchTwice ==
    [][(last'.repeat /\ "sqlite" \in last'.written) =>
          /\ Cardinality(db'.rows) = Cardinality(db.rows)
          /\ Content(db') = Content(db)]_vars

\* C3 witness: a batch of two keys was saved a second time and the rows got new
\* ids.
C3_Witness ==
    /\ last.repeat
    /\ "sqlite" \in last.written
    /\ Len(last.data) = 2
    /\ Cardinality(db.rows) = 2
    /\ \A r \in db.rows : r.id > 2

\* the record written last for the key of data[i]
IsLastOfKey(data, i) ==
    \A j \in (i + 1)..Len(data) : ~SameKey(data[j], data[i])

\* C4: the carbon_data table never holds two rows with the same
\* (project_id, timestamp); after a relational save every key written has
\* exactly one row, and every column of it holds the values of the record
\* written last for that key, whether the key was new or already in the table.
C4_UpsertReplaces ==
    /\ \A r1, r2 \in db.rows : RowKey(r1) = RowKey(r2) => r1 = r2
    /\ "sqlite" \in last.written =>
          \A i \in 1..Len(last.data) :
              IsLastOfKey(last.data, i) =>
                  LET rec == last.data[i]
                      hits == {r \in db.rows : r.project_id = rec.project_id
                                               /\ r.timestamp = rec.timestamp}
                  IN  /\ Cardinality(hits) = 1
                      /\ \A r \in hits :
                            /\ r.co2_tons = rec.co2_tons
                            /\ r.source = rec.source
                            /\ r.location = JsonDumps(rec.location)
                            /\ r.metadata = JsonDumps(rec.metadata)
                            /\ r.verification_status = rec.verification_status
                            /\ r.created_at = sec

\* C4 witness: two saves wrote four records of one key, the last batch holding
\* two different records of it, and one row is left.
C4_Witness ==
    /\ saves = 2
    /\ "sqlite" \in last.written
    /\ db.seq = 4
    /\ Cardinality(db.rows) = 1
    /\ Len(last.data) = 2
    /\ last.data[1].co2_tons # last.data[2].co2_tons

\* modification times of all the backups made by the calls so far: every call
\* after the first copies the three files the call before it wrote
BackupsMade == {Mtime(t, k) : t \in 1..(saves - 1), k \in 0..2}

\* C5: with retention limit MAX_BACKUPS, after MAX_BACKUPS + 5 successive calls
\* of save the backup directory holds exactly MAX_BACKUPS files, those with the
\* most recent modification times among all backups made.
C5_RetentionExact ==
    saves = MAX_BACKUPS + 5 =>
        /\ Cardinality(backups) = MAX_BACKUPS
        /\ \A b \in backups :
              Cardinality({m \in BackupsMade : m > b.mtime}) < MAX_BACKUPS

\* C6: a failure while copying backups or pruning the backup directory does not
\* abort the save: every requested format is still written and save does not
\* raise.
C6_BackupFailureSwallowed ==
    (saves >= 1 /\ last.bfault # "none" /\ last.wfault = "none") =>
        /\ ~last.raised
        /\ last.written = last.formats
        /\ "json" \in last.formats =>
              jsonFile.exists /\ jsonFile.mtime = Mtime(saves, 0) /\ jsonFile.data = last.data
        /\ ("csv" \in last.formats /\ last.data # <<>>) =>
              csvFile.exists /\ csvFile.mtime = Mtime(saves, 1) /\ csvFile.data = last.data
        /\ ("sqlite" \in last.formats /\ last.data # <<>>) =>
              db.mtime = Mtime(saves, 2) /\ Range(last.data) \subseteq Content(db)

\* C6 witness: the copy of an existing output file failed in a call that then
\* wrote a record in all three formats.
C6_Witness ==
    /\ last.bfault \in {"copy_json", "copy_csv", "copy_db"}
    /\ last.wfault = "none"
    /\ last.formats = AllFormats
    /\ last.written = AllFormats
    /\ last.data # <<>>
    /\ jsonFile.mtime = Mtime(saves, 0)

\* C11: when the input batch is empty, the run ends with no tabular file, a
\* document file whose data array is empty, and a relational table with no rows.
C11_EmptyBatchOutputs ==
    (raw = <<>> /\ pc \in {"nodata", "saved", "failed"}) =>
        /\ ~csvFile.exists
        /\ jsonFile.exists /\ ~jsonFile.partial /\ jsonFile.data = <<>>
        /\ db.exists /\ db.rows = {}

\* q without its i-th element
RemoveAt(q, i) == [k \in 1..(Len(q) - 1) |-> IF k < i THEN q[k] ELSE q[k + 1]]

\* positions of the raw entries whose normalization fails
FailingEntries == {i \in 1..Len(raw) : ~NormalizeEntry(raw[i], NowOf(clock[i])).ok}

\* C12: normalize never aborts the batch: each raw record yields at most one
\* canonical record, a record whose normalization fails is dropped, and all the
\* other records are output exactly as they would be without the failing one,
\* in input order.
C12_FailuresIsolated ==
    pc \in {"normalized", "cleaned", "deduplicated", "saved", "failed"} =>
        /\ Len(normalized_data) = Len(origin.normalized)
        /\ Len(normalized_data) = Len(raw) - Cardinality(FailingEntries)
        /\ \A k \in 1..Len(origin.normalized) :
              /\ origin.normalized[k] \in (1..Len(raw)) \ FailingEntries
              /\ normalized_data[k] = CanonicalOf(origin.normalized[k])
        /\ \A k, l \in 1..Len(origin.normalized) :
              k < l => origin.normalized[k] < origin.normalized[l]
        /\ \A i \in FailingEntries :
              Normalize(RemoveAt(raw, i), RemoveAt(Readings(raw, clock), i)) = normalized_data

\* C12 witness: a record whose CO2 value is not a number stood between two
\* records that were normalized.
C12_Witness ==
    /\ pc = "normalized"
    /\ Len(raw) = 3
    /\ "co2_tons" \in DOMAIN raw[2] /\ raw[2]["co2_tons"] = Str("abc")
    /\ origin.normalized = <<1, 3>>
    /\ normalized_data = <<CanonicalOf(1), CanonicalOf(3)>>

\* the raw entry behind the k-th record of normalized_data
RawOf(k) == raw[origin.normalized[k]]

\* C17 (as stated): a raw record with a project_id field keeps it; without one
\* its project_id is synthesized from its id; with neither it gets the literal
\* project_id "unknown".
C17_ProjectIdFallbackUnknown ==
    pc \in {"normalized", "cleaned", "deduplicated", "saved", "failed"} =>
        \A k \in 1..Len(normalized_data) :
            normalized_data[k].project_id =
                IF "project_id" \in DOMAIN RawOf(k) THEN PyStr(RawOf(k)["project_id"])
                ELSE IF "id" \in DOMAIN RawOf(k) THEN "unknown_" \o PyStr(RawOf(k)["id"])
                ELSE "unknown"

\* C17 (amended): a raw record with a project_id field keeps it, as its string
\* form; without one its project_id is "unknown_" followed by its id; with
\* neither it gets the project_id "unknown_unknown".
C17_ProjectIdResolution ==
    pc \in {"normalized", "cleaned", "deduplicated", "saved", "failed"} =>
        \A k \in 1..Len(normalized_data) :
            /\ ("project_id" \in DOMAIN RawOf(k) /\ RawOf(k)["project_id"].t = "str") =>
                  normalized_data[k].project_id = RawOf(k)["project_id"].s
            /\ ("project_id" \in DOMAIN RawOf(k) /\ RawOf(k)["project_id"] = Num(7000)) =>
                  normalized_data[k].project_id = "7"
            /\ ("project_id" \notin DOMAIN RawOf(k) /\ "id" \in DOMAIN RawOf(k)
                    /\ RawOf(k)["id"] = Str("s9")) =>
                  normalized_data[k].project_id = "unknown_s9"
            /\ ("project_id" \notin DOMAIN RawOf(k) /\ "id" \notin DOMAIN RawOf(k)) =>
                  normalized_data[k].project_id = "unknown_unknown"

\* C17 witness: a record with neither project_id nor id was normalized.
C17_Witness ==
    /\ pc = "normalized"
    /\ Len(normalized_data) = 1
    /\ "project_id" \notin DOMAIN raw[1] /\ "id" \notin DOMAIN raw[1]
    /\ normalized_data[1].project_id = "unknown_unknown"

\* C18: no record whose project_id is the empty string survives normalize
\* followed by clean.
C18_ProjectIdNonEmpty ==
    pc \in {"cleaned", "deduplicated", "saved", "failed"} =>
        \A k \in 1..Len(cleaned_data) : cleaned_data[k].project_id # ""

\* C19: deduplication is idempotent: deduplicate(deduplicate(x)) = deduplicate(x)
\* for every list x of canonical records.
C19_DeduplicateIdempotent ==
    pc \in {"deduplicated", "saved", "failed"} =>
        /\ Deduplicate(final_data) = final_data
        /\ Deduplicate(Deduplicate(cleaned_data)) = Deduplicate(cleaned_data)
        /\ DeduplicateKept(final_data) = [k \in 1..Len(final_data) |-> k]

\* C19 witness: deduplicate was given three records of one key and kept one.
C19_Witness ==
    /\ pc = "deduplicated"
    /\ Len(cleaned_data) = 3
    /\ Len(final_data) = 1

\* the recognized CO2 field of a raw entry that comes first in the order
\* co2_tons, co2, carbon_tons, emissions_tons ("" when it has none)
FirstCo2Field(entry) ==
    IF "co2_tons" \in DOMAIN entry THEN "co2_tons"
    ELSE IF "co2" \in DOMAIN entry THEN "co2"
    ELSE IF "carbon_tons" \in DOMAIN entry THEN "carbon_tons"
    ELSE IF "emissions_tons" \in DOMAIN entry THEN "emissions_tons"
    ELSE ""

\* the amount in hundredths a value in tons gives, where it is a number
\* within the accepted range (0 otherwise)
AcceptedTons(v) ==
    IF ~ToFloat(v).ok THEN 0
    ELSE LET c == RoundDiv(ToFloat(v).n, 10)
         IN  IF c >= 1 /\ c <= 100000000 THEN c ELSE 0

\* C20: when a raw record carries several recognized CO2 fields, the value is
\* taken from the first one present in the order co2_tons, co2, carbon_tons,
\* emissions_tons and the others are ignored; the derivation from energy_kwh
\* (kWh / 1000 * 0.5) is used only when none of them is present, even if the
\* matched field's value is later rejected.
C20_Co2FieldPriority ==
    pc \in {"normalized", "cleaned", "deduplicated", "saved", "failed"} =>
        /\ \A k \in 1..Len(normalized_data) :
              IF FirstCo2Field(RawOf(k)) # ""
              THEN /\ AcceptedTons(RawOf(k)[FirstCo2Field(RawOf(k))]) # 0
                   /\ normalized_data[k].co2_tons =
                          AcceptedTons(RawOf(k)[FirstCo2Field(RawOf(k))])
              ELSE /\ "energy_kwh" \in DOMAIN RawOf(k)
                   /\ ToFloat(RawOf(k)["energy_kwh"]).ok
                   /\ normalized_data[k].co2_tons =
                          RoundDiv(ToFloat(RawOf(k)["energy_kwh"]).n, 20000)
        /\ \A i \in 1..Len(raw) :
              (FirstCo2Field(raw[i]) # "" /\ AcceptedTons(raw[i][FirstCo2Field(raw[i])]) = 0)
                  => i \notin Range(origin.normalized)

\* C20 witness: a record with co2 = 5 and co2_tons = 7 was normalized to 7.0, and
\* in another run a record with co2_tons = 0 and energy_kwh = 2000 was dropped.
C20_Witness ==
    /\ pc = "normalized"
    /\ Len(raw) = 1
    /\ "co2_tons" \in DOMAIN raw[1]
    /\ \/ /\ "co2" \in DOMAIN raw[1]
          /\ raw[1]["co2"] = Num(5000) /\ raw[1]["co2_tons"] = Num(7000)
          /\ Len(normalized_data) = 1 /\ normalized_data[1].co2_tons = 700
       \/ /\ "energy_kwh" \in DOMAIN raw[1]
          /\ raw[1]["co2_tons"] = Num(0)
          /\ normalized_data = <<>>

(***************************************************************************)
(* Properties of the tabular file (specification SpecStore)                *)
(***************************************************************************)
\* the names a canonical record has once flattened: its scalar fields, and
\* parent_child for every key of its location and metadata mappings
FlattenedNames(r) ==
    {"project_id", "co2_tons", "timestamp", "source", "verification_status"}
        \cup (IF r.location = "{lat:1,lon:2}" THEN {"location_lat", "location_lon"} ELSE {})
        \cup (IF r.metadata = "{lat:1,lon:2}" THEN {"metadata_lat", "metadata_lon"} ELSE {})

\* the header is in ascending order and has no name twice
HeaderSorted ==
    \A k, l \in 1..Len(csvFile.header) :
        k < l => \E m, n \in 1..Len(SortedNames) :
                    /\ m < n
                    /\ SortedNames[m] = csvFile.header[k]
                    /\ SortedNames[n] = csvFile.header[l]

\* the last call of save wrote a non-empty batch to the tabular file
CsvWritten == saves >= 1 /\ "csv" \in last.written /\ last.data # <<>>

\* C16 (as stated): for every non-empty batch, the header row of the tabular
\* file is exactly the sorted union, over all records, of the flattened field
\* names, and the file has one row per record.
C16_HeaderFlattenedOnly ==
    CsvWritten =>
        /\ HeaderSorted
        /\ {csvFile.header[k] : k \in 1..Len(csvFile.header)}
              = UNION {FlattenedNames(last.data[k]) : k \in 1..Len(last.data)}
        /\ csvFile.count = Len(last.data)

\* C16 (amended): for every non-empty batch, the header row of the tabular file
\* is exactly the sorted union, over all records, of the record's own field
\* names and its flattened field names: a nested mapping contributes its own
\* name (location, metadata) as well as its parent_child names; the file has
\* one row per record.
C16_HeaderOwnAndFlattened ==
    CsvWritten =>
        /\ HeaderSorted
        /\ {csvFile.header[k] : k \in 1..Len(csvFile.header)}
              = {"location", "metadata"}
                    \cup UNION {FlattenedNames(last.data[k]) : k \in 1..Len(last.data)}
        /\ csvFile.count = Len(last.data)

\* C16 witness: a batch of a record with a location of two keys and a record
\* with an empty location was written to the tabular file.
C16_Witness ==
    /\ CsvWritten
    /\ Len(last.data) = 2
    /\ last.data[1].location = "{}" /\ last.data[2].location = "{lat:1,lon:2}"
    /\ csvFile.header = <<"co2_tons", "location", "location_lat", "location_lon", "metadata",
                          "project_id", "source", "timestamp", "verification_status">>
    /\ csvFile.count = 2

(***************************************************************************)
(* Properties of the reads (specification SpecLoad)                        *)
(***************************************************************************)
\* the row of the table behind a returned record
RowOf(record) == CHOOSE r \in db.rows : RowKey(r) = DedupKey(record)

Unusable(text) == text \in {Null, ""} \/ ~JsonLoads(text).ok

\* C13: when load_sqlite reads a row whose location or metadata blob is absent
\* or corrupt, that field degrades to an empty mapping in the returned record
\* and the read still returns every row of the table.
C13_BadBlobDegrades ==
    (loaded.op = "sqlite" /\ ~loaded.given) =>
        /\ Len(loaded.result) = Cardinality(db.rows)
        /\ \A k \in 1..Len(loaded.result) :
              /\ \E r \in db.rows : RowKey(r) = DedupKey(loaded.result[k])
              /\ Unusable(RowOf(loaded.result[k]).location) => loaded.result[k].location = "{}"
              /\ Unusable(RowOf(loaded.result[k]).metadata) => loaded.result[k].metadata = "{}"

Descending(q) ==
    \A k, l \in 1..Len(q) : k < l => TextRank(q[k].timestamp) >= TextRank(q[l].timestamp)

\* no row of the table has a blob json.loads cannot parse
AllReadable == \A r \in db.rows : Blob(r.location).ok /\ Blob(r.metadata).ok

\* C14: load_sqlite(limit=n) returns at most n records for every n >= 0, namely
\* the rows with the greatest timestamps in descending timestamp order; without
\* a limit it returns all rows in descending timestamp order.
C14_LimitRespected ==
    loaded.op = "sqlite" =>
        /\ Descending(loaded.result)
        /\ loaded.given => Len(loaded.result) <= loaded.limit
        /\ (loaded.given /\ AllReadable) =>
              /\ Len(loaded.result) >= loaded.limit \/ Len(loaded.result) = Cardinality(db.rows)
              /\ \A k \in 1..Len(loaded.result) :
                    \A r \in db.rows :
                        TextRank(r.timestamp) > TextRank(loaded.result[k].timestamp) =>
                            \E l \in 1..Len(loaded.result) : RowKey(r) = DedupKey(loaded.result[l])
        /\ (~loaded.given /\ AllReadable) =>
              {DedupKey(loaded.result[k]) : k \in 1..Len(loaded.result)}
                  = {RowKey(r) : r \in db.rows}

\* C15: after saves that include the document format, load_json returns exactly
\* the records of the most recent saved batch (nothing of an earlier batch
\* remains) and the stored record_count is the number of records of that batch;
\* when the document file does not exist load_json returns an empty list.
C15_LoadJsonLatestBatch ==
    loaded.op = "json" =>
        /\ "json" \in last.written =>
              /\ loaded.result = last.data
              /\ jsonFile.count = Len(last.data)
        /\ ~jsonFile.exists => loaded.result = <<>>

\* C15 witness: load_json after a second save to the document file, of one
\* record, over a file the first save had written.
C15_Witness ==
    /\ loaded.op = "json"
    /\ saves = 2
    /\ "json" \in last.written
    /\ \E b \in backups : b.ext = "json"
    /\ Len(last.data) = 1
    /\ loaded.result = last.data

(***************************************************************************)
(* Properties of the timestamp extraction (specification Spec)             *)
(***************************************************************************)
\* position in the order timestamp, datetime, date, time, created_at of the
\* first of these fields the raw entry has (0 when it has none)
FirstTimestampField(entry) ==
    IF "timestamp" \in DOMAIN entry THEN 1
    ELSE IF "datetime" \in DOMAIN entry THEN 2
    ELSE IF "date" \in DOMAIN entry THEN 3
    ELSE IF "time" \in DOMAIN entry THEN 4
    ELSE IF "created_at" \in DOMAIN entry THEN 5
    ELSE 0

TimestampNames == <<"timestamp", "datetime", "date", "time", "created_at">>

\* the timestamp a field alone gives
TimestampOfField(entry, i) ==
    ExtractTimestamp(Fld(TimestampNames[i], entry[TimestampNames[i]]), "")

\* C21: the normalized timestamp is determined by the first field present in
\* the raw record in the order timestamp, datetime, date, time, created_at:
\* whenever a higher-priority field is present, no lower-priority field and
\* not the current-time default is used, whatever the present field's value.
C21_FirstTimestampFieldWins ==
    pc \in {"normalized", "cleaned", "deduplicated", "saved", "failed"} =>
        \A k \in 1..Len(normalized_data) :
            LET first == FirstTimestampField(RawOf(k))
            IN  first # 0 =>
                    IF RawOf(k)[TimestampNames[first]].t \in {"str", "dt"}
                    THEN normalized_data[k].timestamp = TimestampOfField(RawOf(k), first)
                    ELSE /\ clock[origin.normalized[k]] = 0
                         /\ \A j \in (first + 1)..5 :
                               TimestampNames[j] \in DOMAIN RawOf(k) =>
                                   normalized_data[k].timestamp # TimestampOfField(RawOf(k), j)

(***************************************************************************)
(* Properties of the backups (specification SpecStore).  A backup file     *)
(* carries the modification time of the file it was copied from, and every *)
(* write of an output file gives it a modification time of its own, so the *)
(* modification time names the content.                                    *)
(***************************************************************************)
\* C22: in every save with backups enabled, the backup copies are made before
\* any format write of that save: each backup file created by the save holds
\* the content its output file had before the save, never content written by
\* the same save.
C22_BackupBeforeWrite ==
    [][saves' = saves + 1 =>
          \A b \in backups' :
              /\ b.mtime < Mtime(saves', 0)
              /\ b \notin backups =>
                    /\ b.stamp = sec'
                    /\ b.ext = "json" => jsonFile.exists /\ b.mtime = jsonFile.mtime
                    /\ b.ext = "csv" => csvFile.exists /\ b.mtime = csvFile.mtime
                    /\ b.ext = "db" => db.exists /\ b.mtime = db.mtime]_vars

\* C22 witness: the second save rewrote the three outputs and left backups of
\* what the first save had written.
C22_Witness ==
    /\ saves = 2
    /\ last.written = AllFormats /\ last.data # <<>>
    /\ jsonFile.mtime = Mtime(2, 0) /\ csvFile.mtime = Mtime(2, 1) /\ db.mtime = Mtime(2, 2)
    /\ [stamp |-> sec, ext |-> "json", mtime |-> Mtime(1, 0)] \in backups
    /\ [stamp |-> sec, ext |-> "csv", mtime |-> Mtime(1, 1)] \in backups
    /\ [stamp |-> sec, ext |-> "db", mtime |-> Mtime(1, 2)] \in backups

(***************************************************************************)
(* Properties of an interrupted save (specification SpecFault)             *)
(***************************************************************************)
\* the document or tabular file after the step is what it was before, or
\* holds the whole batch of the call
WholeFile(before, after) ==
    \/ after = before
    \/ after.exists /\ ~after.partial /\ after.data = last'.data
          /\ after.count = Len(last'.data)

\* the step left the file partially written
Torn(before, after) == after # before /\ after.partial

\* C23: if the process crashes at any point during save, at most one of the
\* three outputs is left partially written; every other output holds either
\* its complete previous content or its complete new content, and no output
\* holds a mix of two batches.
C23_CrashLeavesOnePartial ==
    [][saves' = saves + 1 =>
          /\ ~(Torn(jsonFile, jsonFile') /\ Torn(csvFile, csvFile'))
          /\ Torn(jsonFile, jsonFile') \/ WholeFile(jsonFile, jsonFile')
          /\ Torn(csvFile, csvFile') \/ WholeFile(csvFile, csvFile')
          /\ (Torn(jsonFile, jsonFile') \/ Torn(csvFile, csvFile')) => Content(db') = Content(db)
          /\ \/ Content(db') = Content(db)
             \/ /\ \A k \in 1..Len(last'.data) :
                      \E r \in db'.rows : RowKey(r) = DedupKey(last'.data[k])
                /\ \A r \in db.rows :
                      \/ r \in db'.rows
                      \/ \E k \in 1..Len(last'.data) : RowKey(r) = DedupKey(last'.data[k])]_vars

\* C23 witness: a save of two records ended in the relational write after it
\* had rewritten the document and the tabular file; the table still holds the
\* one row of the save before.
C23_Witness ==
    /\ saves = 2
    /\ last.wfault = "sqlite" /\ last.raised
    /\ Len(last.data) = 2
    /\ last.written = {"json", "csv"}
    /\ jsonFile.data = last.data /\ csvFile.data = last.data
    /\ ~jsonFile.partial /\ ~csvFile.partial
    /\ db.mtime = Mtime(1, 2)
    /\ Cardinality(db.rows) = 1

(***************************************************************************)
(* Properties across the formats (specification SpecStore)                 *)
(***************************************************************************)
\* the last call of save took all three formats and returned normally
FullSave == saves >= 1 /\ last.formats = AllFormats /\ ~last.raised

\* C24 (as stated): after every save with all three formats that completes
\* without error, the tabular file and the document file describe the same
\* batch (the tabular file has exactly one row per record of the document's
\* data array), for any sequence of saves including saves of an empty batch.
C24_CsvMatchesJson ==
    FullSave =>
        /\ csvFile.count = Len(jsonFile.data)
        /\ csvFile.data = jsonFile.data

\* C24 (amended): after every save of a non-empty batch with all three formats
\* that completes without error, the tabular file and the document file
\* describe the same batch, one row per record of the data array; a save of an
\* empty batch empties the data array and leaves the tabular file as it was.
C24_CsvMatchesJsonNonEmpty ==
    [][(saves' = saves + 1 /\ last'.formats = AllFormats /\ ~last'.raised) =>
          IF last'.data # <<>>
          THEN /\ jsonFile'.data = last'.data
               /\ csvFile'.exists
               /\ csvFile'.count = Len(jsonFile'.data)
               /\ csvFile'.data = jsonFile'.data
          ELSE /\ jsonFile'.data = <<>>
               /\ csvFile' = csvFile]_vars

\* C24 witness: a save of an empty batch after a save of two records: the data
\* array is empty and the tabular file still has the two rows.
C24_Witness ==
    /\ FullSave
    /\ saves = 2
    /\ last.data = <<>>
    /\ jsonFile.data = <<>> /\ jsonFile.mtime = Mtime(2, 0)
    /\ csvFile.count = 2 /\ csvFile.mtime = Mtime(1, 1)

\* the (project_id, timestamp) keys of a batch and of the table
BatchKeys(data) == {DedupKey(data[k]) : k \in 1..Len(data)}

TableKeys(table) == {RowKey(r) : r \in table.rows}

\* C25: the relational table is cumulative: a save never removes or changes a
\* row whose key is absent from the saved batch, so after any sequence of saves
\* the table's key set is the union of the keys of all batches saved, while the
\* document file holds only the last batch.
C25_TableCumulative ==
    [][saves' = saves + 1 =>
          /\ \A r \in db.rows : RowKey(r) \notin BatchKeys(last'.data) => r \in db'.rows
          /\ TableKeys(db') = IF "sqlite" \in last'.written
                              THEN TableKeys(db) \cup BatchKeys(last'.data)
                              ELSE TableKeys(db)
          /\ "json" \in last'.written => jsonFile'.data = last'.data]_vars

\* C25 witness: after a save of a record of one key and a save of a record of
\* another, the table holds both rows, the first as it was inserted, and the
\* document file the second record only.
C25_Witness ==
    /\ saves = 2
    /\ last.written = AllFormats
    /\ Len(last.data) = 1
    /\ jsonFile.data = last.data
    /\ Cardinality(db.rows) = 2
    /\ \E r \in db.rows : r.id = 1 /\ RowKey(r) \notin BatchKeys(last.data)

(***************************************************************************)
(* Properties of the pruning (specification SpecPrune)                     *)
(***************************************************************************)
\* the backup files a save makes of the outputs that exist when it starts
MadeBy(stamp) ==
    (IF jsonFile.exists
     THEN {[stamp |-> stamp, ext |-> "json", mtime |-> jsonFile.mtime]} ELSE {})
        \cup (IF csvFile.exists
              THEN {[stamp |-> stamp, ext |-> "csv", mtime |-> csvFile.mtime]} ELSE {})
        \cup (IF db.exists THEN {[stamp |-> stamp, ext |-> "db", mtime |-> db.mtime]} ELSE {})

\* C26: with MAX_BACKUPS at least 3, the pruning step of a save never deletes a
\* backup file that the same save has just created; only backups made by
\* earlier saves are deleted, for any sequence of saves (including saves that
\* leave an output file unmodified).
C26_PruneSparesNewBackups ==
    [][(saves' = saves + 1 /\ MAX_BACKUPS >= 3) => MadeBy(sec') \subseteq backups']_vars

(***************************************************************************)
(* Properties of the clean stage (specification Spec)                      *)
(***************************************************************************)
\* C27: the clean stage is a no-op on the normalizer's output: for every raw
\* batch, clean(normalize(batch)) equals normalize(batch), because every record
\* the Pydantic model accepts satisfies every rule of _is_valid_entry.
C27_CleanIsNoOp ==
    pc \in {"cleaned", "deduplicated", "saved", "failed"} =>
        /\ cleaned_data = normalized_data
        /\ origin.cleaned = origin.normalized
        /\ \A k \in 1..Len(normalized_data) : IsValidEntry(normalized_data[k])

\* C27 witness: clean was given the two records normalize had made of a batch
\* of three and kept both.
C27_Witness ==
    /\ pc = "cleaned"
    /\ Len(raw) = 3
    /\ Len(normalized_data) = 2
    /\ cleaned_data = normalized_data

====
